---- MODULE Spec2Model ----
(***************************************************************************)
(* Verification session state machine of the patent claim verifier         *)
(* (src/app.py): start_verification_full, handle_chat_stream driven by     *)
(* _submit_wrap, the answer stream of src/llm_client.py and the Q&A report *)
(* writer of src/report_generator.py.                                      *)
(*                                                                         *)
(* Text is a sequence of atoms (characters for what the reviewer types,    *)
(* literal blocks for the fixed parts of a message), string concatenation  *)
(* is \o.  An optional value is <<>> (None) or <<v>>.                      *)
(***************************************************************************)
EXTENDS Integers, Sequences, FiniteSets, TLC

\* ------------------------------------------------------------------ bounds
MaxQuestions == 2      \* longest question list loaded
MaxFrags     == 2      \* most fragments one answer stream yields
MaxHistory   == 8      \* longest transcript a submit is still taken on

\* ------------------------------------------------------------ optional values
None == <<>>
Some(v) == <<v>>
IsNone(o) == o = <<>>
Val(o) == o[1]

\* ------------------------------------------------------------------ text
EmptyText == <<>>

IsSpace(c) == c \in {" ", "\n"}

Lower(s) ==
  [i \in 1..Len(s) |->
     CASE s[i] = "Y" -> "y"
       [] s[i] = "N" -> "n"
       [] s[i] = "O" -> "o"
       [] s[i] = "K" -> "k"
       [] s[i] = "NO" -> "no"
       [] s[i] = "MODELS" -> "models"
       [] OTHER -> s[i]]

RECURSIVE LStrip(_)
LStrip(s) == IF s # <<>> /\ IsSpace(Head(s)) THEN LStrip(Tail(s)) ELSE s

RECURSIVE RStrip(_)
RStrip(s) ==
  IF s # <<>> /\ IsSpace(s[Len(s)]) THEN RStrip(SubSeq(s, 1, Len(s) - 1)) ELSE s

Strip(s) == RStrip(LStrip(s))

\* str.split(): the maximal runs of non-whitespace characters, in order
RECURSIVE SplitFrom(_, _, _)
SplitFrom(s, cur, acc) ==
  IF s = <<>> THEN (IF cur = <<>> THEN acc ELSE Append(acc, cur))
  ELSE IF IsSpace(Head(s))
       THEN SplitFrom(Tail(s), <<>>, IF cur = <<>> THEN acc ELSE Append(acc, cur))
       ELSE SplitFrom(Tail(s), Append(cur, Head(s)), acc)

Split(s) == SplitFrom(s, <<>>, <<>>)

SeqToSet(s) == {s[i] : i \in 1..Len(s)}

\* needle in hay (substring test)
Contains(hay, needle) ==
  \E i \in 0..(Len(hay) - Len(needle)) :
     SubSeq(hay, i + 1, i + Len(needle)) = needle

_POSITIVE_WORDS ==
  { <<"y","e","s">>, <<"y">>, <<"a","p","p","r","o","v","e">>,
    <<"a","p","p","r","o","v","e","d">>, <<"a","c","c","e","p","t">>,
    <<"a","c","c","e","p","t","e","d">>, <<"g","o","o","d">>, <<"o","k">>,
    <<"o","k","a","y">>, <<"s","a","v","e">> }

_NEGATIVE_WORDS ==
  { <<"n","o">>, <<"n">>, <<"r","e","j","e","c","t">>,
    <<"r","e","j","e","c","t","e","d">>, <<"r","e","t","r","y">>,
    <<"r","e","d","o">>, <<"a","g","a","i","n">>, <<"b","a","d">>,
    <<"n","o","p","e">> }


\* ------------------------------------------------------------ input spaces
\* the reviewer's utterances (characters): empty, affirming, rejecting, neither
Messages ==
  { <<>>, <<" ", "Y">>, <<"n", "o">>, <<"x">> }

\* the context the reviewer types while a question is asked: none, or text
\* with blanks around it
Contexts ==
  { <<>>, <<" ", "Y">> }

QuestionPool == <<"Q1", "Q2", "Q3">>

\* question lists extract_comments can return (non-empty comment texts)
QuestionLists == { SubSeq(QuestionPool, 1, n) : n \in 0..MaxQuestions }

NoModelsChoice == <<"(", "no", " ", "models", " - is ollama running?)">>

ValidModel == <<"llama3">>

\* Additional Info is optional: "" when no file was given
ExtraFor(qs) == IF Len(qs) % 2 = 0 THEN <<"E">> ELSE EmptyText

\* what Start Verification reads from id_text_state, extra_text_state,
\* questions_state and the model dropdown: load_documents leaves (None, None, [])
\* or (text, text, list); the dropdown holds nothing, the placeholder or a name
StartInputs ==
  { [id_text |-> None, extra_text |-> None, questions |-> <<>>,
     model |-> Some(ValidModel)],
    [id_text |-> Some(EmptyText), extra_text |-> Some(EmptyText),
     questions |-> <<"Q1">>, model |-> Some(ValidModel)],
    [id_text |-> Some(<<"D">>), extra_text |-> Some(EmptyText),
     questions |-> <<"Q1">>, model |-> None],
    [id_text |-> Some(<<"D">>), extra_text |-> Some(<<"E">>),
     questions |-> <<"Q1">>, model |-> Some(NoModelsChoice)] }
    \cup { [id_text |-> Some(<<"D">>), extra_text |-> Some(ExtraFor(qs)),
            questions |-> qs, model |-> Some(ValidModel)] : qs \in QuestionLists }

\* datetime.now() formatted to the second
Timestamps == { "20240101_000000" }

\* the fragments one answer stream yields, in order (each non-empty)
FragPool == <<"a", "b", "c">>
StreamErrors == { "connection refused" }
SaveOutcomes == { "ok", "raise" }

\* ------------------------------------------------------------------ state
VARIABLES
  chatbot,         \* gr.Chatbot value: the transcript shown
  session_state,   \* gr.State holding the session dict
  qa_path_state,   \* gr.State holding the report path carried across turns
  qa_dl,           \* gr.File download value
  gen,             \* the running _submit_wrap/handle_chat_stream generator
  report_writes,   \* calls of save_qa_to_docx made for the stored session
  event            \* the event handled last: its kind and its input

vars == <<chatbot, session_state, qa_path_state, qa_dl, gen, report_writes, event>>

Msg(role, content) == [role |-> role, content |-> content]

IdleSession == [phase |-> "idle"]

NoGen == [pc |-> "ready"]

OUTPUT_DIR == "outputs"

_make_session(questions, model, id_text, extra_text, timestamp) ==
  [ phase            |-> "asking",
    questions        |-> questions,
    current_index    |-> 0,
    current_question |-> questions[1],
    current_answer   |-> None,
    approved_qa      |-> <<>>,
    output_path      |-> <<OUTPUT_DIR, "/qa_report_", timestamp, ".docx">>,
    model            |-> model,
    id_text          |-> id_text,
    extra_text       |-> extra_text ]

\* faulty variant of ModelInvalid: the placeholder entry passes
ModelInvalid_IgnoresPlaceholder(model) ==
  \/ IsNone(model)
  \/ Val(model) = EmptyText

\* not model or "no models" in (model or "").lower()
ModelInvalid(model) ==
  \/ IsNone(model)
  \/ Val(model) = EmptyText
  \/ Contains(Lower(Val(model)), <<"no", " ", "models">>)

Falsy(o) == IsNone(o) \/ Val(o) = EmptyText

\* start_verification: <<history, session, qa_path>>
start_verification(id_text, questions, model, timestamp) ==
  IF Falsy(id_text)
  THEN << <<Msg("assistant", <<"(!) Please load documents first using **Load Documents**.">>)>>,
          IdleSession, None >>
  ELSE IF questions = <<>>
  THEN << <<Msg("assistant", <<"(!) No questions (comments) found in the patent claim document.">>)>>,
          IdleSession, None >>
  ELSE IF ModelInvalid(model)
  THEN << <<Msg("assistant", <<"(!) Please select a valid ollama model.">>)>>,
          IdleSession, None >>
  ELSE << <<Msg("assistant",
                <<"Verification started - **", ToString(Len(questions)),
                  " question(s)** to verify. **Question 1 of ",
                  ToString(Len(questions)), ":** > ", questions[1],
                  " Provide any additional context">>)>>,
          _make_session(questions, Val(model), Val(id_text), EmptyText, timestamp),
          None >>

\* faulty variant of start_verification_full: a session is only started with
\* additional information present
start_verification_full_NeedsExtra(id_text, extra_text, questions, model, timestamp) ==
  LET r == start_verification(id_text, questions, model, timestamp) IN
    IF r[2].phase = "asking" /\ ~Falsy(extra_text)
    THEN << r[1], [r[2] EXCEPT !.extra_text = Val(extra_text)], r[3] >>
    ELSE << r[1], IdleSession, r[3] >>

start_verification_full(id_text, extra_text, questions, model, timestamp) ==
  LET r == start_verification(id_text, questions, model, timestamp) IN
    IF r[2].phase = "asking"
    THEN << r[1],
            [r[2] EXCEPT !.extra_text = IF Falsy(extra_text) THEN EmptyText ELSE Val(extra_text),
                         !.id_text = IF Falsy(id_text) THEN EmptyText ELSE Val(id_text)],
            r[3] >>
    ELSE r

Init ==
  /\ chatbot = <<>>
  /\ session_state = IdleSession
  /\ qa_path_state = None
  /\ qa_dl = None
  /\ gen = NoGen
  /\ report_writes = <<>>
  /\ event = [op |-> "load"]

\* faulty variant of StartVerification: the pairs approved in the session that
\* is replaced are merged into the new one
StartVerification_MergesSession ==
  /\ gen.pc = "ready"
  /\ \E in \in StartInputs, ts \in Timestamps :
       LET r == start_verification_full(in.id_text, in.extra_text,
                                        in.questions, in.model, ts) IN
         /\ chatbot' = r[1]
         /\ session_state' =
              (IF r[2].phase = "asking" /\ session_state.phase # "idle"
               THEN [ r[2] EXCEPT !.approved_qa = session_state.approved_qa ]
               ELSE r[2])
         /\ qa_dl' = r[3]
         /\ qa_path_state' = None
         /\ event' = [op |-> "start", input |-> in, replaced |-> session_state.phase]
  /\ report_writes' = <<>>
  /\ UNCHANGED gen

\* faulty variant of StartVerification: a Start that fails its guards leaves
\* the stored session in place
StartVerification_KeepsOnFailure ==
  /\ gen.pc = "ready"
  /\ \E in \in StartInputs, ts \in Timestamps :
       LET r == start_verification_full(in.id_text, in.extra_text,
                                        in.questions, in.model, ts) IN
         /\ chatbot' = r[1]
         /\ session_state' = (IF r[2].phase = "idle" THEN session_state ELSE r[2])
         /\ qa_dl' = r[3]
         /\ qa_path_state' = None
         /\ event' = [op |-> "start", input |-> in, replaced |-> session_state.phase]
  /\ report_writes' = <<>>
  /\ UNCHANGED gen

\* start_btn.click(start_verification_full).then(lambda: None -> qa_path_state)
StartVerification ==
  /\ gen.pc = "ready"
  /\ \E in \in StartInputs, ts \in Timestamps :
       LET r == start_verification_full(in.id_text, in.extra_text,
                                        in.questions, in.model, ts) IN
         /\ chatbot' = r[1]
         /\ session_state' = r[2]
         /\ qa_dl' = r[3]
         /\ qa_path_state' = None
         /\ event' = [op |-> "start", input |-> in, replaced |-> session_state.phase]
  /\ report_writes' = <<>>
  /\ UNCHANGED gen


\* ------------------------------------------------- report_generator.py
\* splitlines() of an answer: the fragments modelled carry no line break
SplitLines(text) == IF text = EmptyText THEN <<>> ELSE <<text>>

RECURSIVE QaParagraphs(_, _)
QaParagraphs(qa_pairs, i) ==
  IF i > Len(qa_pairs) THEN <<>>
  ELSE << <<"Question ", ToString(i)>>, <<"Q: ", qa_pairs[i][1]>>, <<"Answer:">> >>
         \o SplitLines(Val(qa_pairs[i][2]))
         \o << <<"----">> >>
         \o QaParagraphs(qa_pairs, i + 1)

\* the document save_qa_to_docx builds: title, count line, one block per pair
QaDocument(qa_pairs) ==
  << <<"Patent Claim Verification - Q&A Report">>,
     <<"Total approved pairs: ", ToString(Len(qa_pairs))>> >>
    \o QaParagraphs(qa_pairs, 1)

\* answer.splitlines() on None raises; doc.save may raise
SaveOutcomesFor(qa_pairs) ==
  IF \E i \in 1..Len(qa_pairs) : IsNone(qa_pairs[i][2])
  THEN { "raise" } ELSE SaveOutcomes

save_qa_to_docx(qa_pairs, output_path, outcome) ==
  [ qa_pairs    |-> qa_pairs,
    output_path |-> output_path,
    outcome     |-> outcome,
    document    |-> IF outcome = "ok" THEN Some(QaDocument(qa_pairs)) ELSE None ]

\* ------------------------------------------------- handle_chat_stream
\* message or "(empty)"
OrText(text, default) == IF text = EmptyText THEN default ELSE text

\* history[-1] = m
SetLast(history, m) == [history EXCEPT ![Len(history)] = m]

\* faulty variant of IdleReply: the message is echoed without any answer
IdleReply_EchoOnly(message, history, session) ==
  << history \o << Msg("user", OrText(message, <<"(empty)">>)) >>, session, None >>

\* phase == "idle": <<history, session, qa_path>>
IdleReply(message, history, session) ==
  << history \o << Msg("user", OrText(message, <<"(empty)">>)),
                   Msg("assistant", <<"Please click **Start Verification** to begin.">>) >>,
     session, None >>

\* faulty variant of DoneReply: a message after completion reopens the last question
DoneReply_Restarts(message, history, session) ==
  << history \o << Msg("user", OrText(message, <<"(empty)">>)),
                   Msg("assistant", <<"Verification is complete! Download the Q&A report using the button below.">>) >>,
     [ session EXCEPT !.phase = "asking" ], None >>

\* faulty variant of DoneReply: the report location is emitted again
DoneReply_ReemitsLocation(message, history, session) ==
  << history \o << Msg("user", OrText(message, <<"(empty)">>)),
                   Msg("assistant", <<"Verification is complete! Download the Q&A report using the button below.">>) >>,
     session, Some(session.output_path) >>

\* phase == "done"
DoneReply(message, history, session) ==
  << history \o << Msg("user", OrText(message, <<"(empty)">>)),
                   Msg("assistant", <<"Verification is complete! Download the Q&A report using the button below.">>) >>,
     session, None >>

\* phase == "asking", up to the call of stream_answer
\* faulty variant of AskingBegin: the session is marked as answered before
\* the stream has ended
AskingBegin_EarlyPhase(message, history, session, prev_qa_path) ==
  LET user_msg == Strip(message) IN
  [ pc           |-> "streaming",
    user_msg     |-> user_msg,
    history      |-> history \o << Msg("user", OrText(user_msg, <<"(no additional context)">>)),
                                   Msg("assistant", EmptyText) >>,
    accumulated  |-> EmptyText,
    session      |-> [ session EXCEPT !.phase = "waiting_feedback",
                                      !.current_answer = Some(EmptyText) ],
    prev_qa_path |-> prev_qa_path,
    request      |-> [ question     |-> session.current_question,
                       id_text      |-> session.id_text,
                       extra_text   |-> session.extra_text,
                       user_context |-> user_msg,
                       model        |-> session.model ] ]

AskingBegin(message, history, session, prev_qa_path) ==
  LET user_msg == Strip(message) IN
  [ pc           |-> "streaming",
    user_msg     |-> user_msg,
    history      |-> history \o << Msg("user", OrText(user_msg, <<"(no additional context)">>)),
                                   Msg("assistant", EmptyText) >>,
    accumulated  |-> EmptyText,
    session      |-> session,
    prev_qa_path |-> prev_qa_path,
    request      |-> [ question     |-> session.current_question,
                       id_text      |-> session.id_text,
                       extra_text   |-> session.extra_text,
                       user_context |-> user_msg,
                       model        |-> session.model ] ]

\* one pass of the for loop: accumulated += chunk; history[-1] = ...
\* faulty variant of AskingChunk: only the newest fragment is shown
AskingChunk_ShowsFragmentOnly(g, chunk) ==
  [ g EXCEPT !.accumulated = g.accumulated \o <<chunk>>,
             !.history = SetLast(g.history, Msg("assistant", <<chunk>>)) ]

AskingChunk(g, chunk) ==
  [ g EXCEPT !.accumulated = g.accumulated \o <<chunk>>,
             !.history = SetLast(g.history,
                                 Msg("assistant", g.accumulated \o <<chunk>>)) ]

\* faulty variant of AskingError: the partial text is kept as the answer
AskingError_KeepsPartial(g, exc) ==
  << SetLast(g.history,
             Msg("assistant", <<"Error generating answer: ", exc, " Please try again.">>)),
     [ g.session EXCEPT !.phase = "waiting_feedback",
                        !.current_answer = Some(g.accumulated) ],
     None >>

\* except Exception as exc
AskingError(g, exc) ==
  << SetLast(g.history,
             Msg("assistant", <<"Error generating answer: ", exc, " Please try again.">>)),
     g.session, None >>

FeedbackPrompt(session) ==
  << "--- *Answer for Question ", ToString(session.current_index + 1), " of ",
     ToString(Len(session.questions)), " - is this satisfactory?*" >>

\* faulty variant of AskingSuccess: the answer is stored with the feedback prompt
AskingSuccess_StoresPrompt(g) ==
  << SetLast(g.history,
             Msg("assistant", g.accumulated \o FeedbackPrompt(g.session))),
     [ g.session EXCEPT !.phase = "waiting_feedback",
                        !.current_answer = Some(g.accumulated \o FeedbackPrompt(g.session)) ],
     None >>

\* faulty variant of AskingSuccess: the session keeps asking after the answer
AskingSuccess_StaysAsking(g) ==
  << SetLast(g.history,
             Msg("assistant", g.accumulated \o FeedbackPrompt(g.session))),
     g.session, None >>

\* faulty variant of AskingSuccess: an answer without text counts as no answer
AskingSuccess_EmptyIsNone(g) ==
  << SetLast(g.history,
             Msg("assistant", g.accumulated \o FeedbackPrompt(g.session))),
     [ g.session EXCEPT !.phase = "waiting_feedback",
                        !.current_answer =
                           IF g.accumulated = EmptyText THEN None ELSE Some(g.accumulated) ],
     None >>

\* the stream is exhausted
AskingSuccess(g) ==
  << SetLast(g.history,
             Msg("assistant", g.accumulated \o FeedbackPrompt(g.session))),
     [ g.session EXCEPT !.phase = "waiting_feedback",
                        !.current_answer = Some(g.accumulated) ],
     None >>

\* faulty variant of FeedbackText: the case of the letters is kept
FeedbackText_KeepsCase(message) == Strip(message)

\* feedback = (message or "").strip().lower()
FeedbackText(message) == Lower(Strip(message))

\* words = set(feedback.split())
Words(message) == SeqToSet(Split(FeedbackText(message)))

\* faulty variant of IsPositive: a rejecting word overrides an approving one
IsPositive_UnlessNegative(message) ==
  /\ Words(message) \cap _POSITIVE_WORDS # {}
  /\ Words(message) \cap _NEGATIVE_WORDS = {}

IsPositive(message) == Words(message) \cap _POSITIVE_WORDS # {}

IsNegative(message) == Words(message) \cap _NEGATIVE_WORDS # {}

\* not feedback
FeedbackReminder(message, history, session) ==
  << history \o << Msg("assistant", <<"Please type **yes** to accept the answer or **no** to retry.">>) >>,
     session, None >>

\* faulty variant of NewQa: the new pair is put in front
NewQa_Prepends(session) ==
  << <<session.current_question, session.current_answer>> >> \o session.approved_qa

NewQa(session) ==
  session.approved_qa \o << <<session.current_question, session.current_answer>> >>

NextIdx(session) == session.current_index + 1

IsLastQuestion(session) == NextIdx(session) >= Len(session.questions)

\* faulty variant of AffirmFinal: the index is moved past the last question
AffirmFinal_AdvancesIndex(message, history, session, outcome) ==
  << history \o << Msg("user", message), Msg("assistant", <<"Answer saved!">>) >>,
     [ session EXCEPT !.phase = "done", !.approved_qa = NewQa(session),
                      !.current_index = Len(session.questions) ],
     IF outcome = "ok" THEN Some(session.output_path) ELSE None >>

\* faulty variant of AffirmFinal: the last pair is not stored in the session
AffirmFinal_DropsPair(message, history, session, outcome) ==
  << history \o << Msg("user", message), Msg("assistant", <<"Answer saved!">>) >>,
     [ session EXCEPT !.phase = "done" ],
     IF outcome = "ok" THEN Some(session.output_path) ELSE None >>

\* faulty variant of AffirmFinal: a failed save leaves the session waiting
AffirmFinal_StaysOnFailure(message, history, session, outcome) ==
  LET new_session == [ session EXCEPT !.phase = "done", !.approved_qa = NewQa(session) ] IN
    IF outcome = "ok"
    THEN << history \o << Msg("user", message),
                          Msg("assistant", <<"Answer saved! All **", ToString(Len(NewQa(session))),
                                             "** answer(s) approved. Verification complete!">>) >>,
            new_session, Some(session.output_path) >>
    ELSE << history \o << Msg("user", message),
                          Msg("assistant", <<"Error saving Q&A report: ", "save failed">>) >>,
            session, None >>

\* words & _POSITIVE_WORDS, next_idx >= len(questions)
AffirmFinal(message, history, session, outcome) ==
  LET new_session == [ session EXCEPT !.phase = "done", !.approved_qa = NewQa(session) ] IN
    IF outcome = "ok"
    THEN << history \o << Msg("user", message),
                          Msg("assistant", <<"Answer saved! All **", ToString(Len(NewQa(session))),
                                             "** answer(s) approved. Verification complete!">>) >>,
            new_session, Some(session.output_path) >>
    ELSE << history \o << Msg("user", message),
                          Msg("assistant", <<"Error saving Q&A report: ", "save failed">>) >>,
            new_session, None >>

\* faulty variant of AffirmNext: the index is not advanced
AffirmNext_NoAdvance(message, history, session) ==
  << history \o << Msg("user", message), Msg("assistant", <<"Answer saved!">>) >>,
     [ session EXCEPT !.phase = "asking",
                      !.approved_qa = NewQa(session),
                      !.current_answer = None ],
     None >>

\* faulty variant of AffirmNext: the approved pair is not stored
AffirmNext_ForgetsPair(message, history, session) ==
  << history \o << Msg("user", message), Msg("assistant", <<"Answer saved!">>) >>,
     [ session EXCEPT !.phase = "asking",
                      !.current_index = NextIdx(session),
                      !.current_question = session.questions[NextIdx(session) + 1],
                      !.current_answer = None ],
     None >>

\* faulty variant of AffirmNext: the affirmed answer is left pending
AffirmNext_KeepsAnswer(message, history, session) ==
  << history \o << Msg("user", message), Msg("assistant", <<"Answer saved!">>) >>,
     [ session EXCEPT !.phase = "asking",
                      !.approved_qa = NewQa(session),
                      !.current_index = NextIdx(session),
                      !.current_question = session.questions[NextIdx(session) + 1] ],
     None >>

\* words & _POSITIVE_WORDS, move to the next question
\* faulty variant of AffirmNext: the cached question is not refreshed
AffirmNext_StaleQuestion(message, history, session) ==
  << history \o << Msg("user", message), Msg("assistant", <<"Answer saved!">>) >>,
     [ session EXCEPT !.phase = "asking",
                      !.approved_qa = NewQa(session),
                      !.current_index = NextIdx(session),
                      !.current_answer = None ],
     None >>

AffirmNext(message, history, session) ==
  << history \o << Msg("user", message),
                   Msg("assistant", <<"Answer saved! (", ToString(Len(NewQa(session))), "/",
                                      ToString(Len(session.questions)), " approved) **Question ",
                                      ToString(NextIdx(session) + 1), " of ",
                                      ToString(Len(session.questions)), ":** > ",
                                      session.questions[NextIdx(session) + 1]>>) >>,
     [ session EXCEPT !.phase = "asking",
                      !.approved_qa = NewQa(session),
                      !.current_index = NextIdx(session),
                      !.current_question = session.questions[NextIdx(session) + 1],
                      !.current_answer = None ],
     None >>

\* faulty variant of RejectReply: the retry starts over at the first question
RejectReply_Restarts(message, history, session) ==
  << history \o << Msg("user", message), Msg("assistant", <<"No problem - let's try again.">>) >>,
     [ session EXCEPT !.phase = "asking", !.current_answer = None,
                      !.current_index = 0,
                      !.current_question = session.questions[1] ],
     None >>

\* faulty variant of RejectReply: the rejected answer is left pending
RejectReply_KeepsAnswer(message, history, session) ==
  << history \o << Msg("user", message), Msg("assistant", <<"No problem - let's try again.">>) >>,
     [ session EXCEPT !.phase = "asking" ],
     None >>

\* words & _NEGATIVE_WORDS
\* faulty variant of RejectReply: a rejection discards the pairs approved so far
RejectReply_ClearsApproved(message, history, session) ==
  << history \o << Msg("user", message), Msg("assistant", <<"No problem - let's try again.">>) >>,
     [ session EXCEPT !.phase = "asking", !.current_answer = None, !.approved_qa = <<>> ],
     None >>

\* faulty variant of RejectReply: the retry goes back to the previous question
RejectReply_StepsBack(message, history, session) ==
  LET idx == IF session.current_index > 0 THEN session.current_index - 1 ELSE 0 IN
  << history \o << Msg("user", message), Msg("assistant", <<"No problem - let's try again.">>) >>,
     [ session EXCEPT !.phase = "asking", !.current_answer = None,
                      !.current_index = idx,
                      !.current_question = session.questions[idx + 1] ],
     None >>

RejectReply(message, history, session) ==
  << history \o << Msg("user", message),
                   Msg("assistant", <<"No problem - let's try again. **Question ",
                                      ToString(session.current_index + 1), " of ",
                                      ToString(Len(session.questions)), ":** > ",
                                      session.current_question>>) >>,
     [ session EXCEPT !.phase = "asking", !.current_answer = None ],
     None >>

\* neither
\* faulty variant of UnrecognisedReply: an unclear reply triggers a retry
UnrecognisedReply_Retries(message, history, session) ==
  << history \o << Msg("user", message),
                   Msg("assistant", <<"I didn't catch that. Please type **yes** to accept or **no** to retry.">>) >>,
     [ session EXCEPT !.phase = "asking", !.current_answer = None ],
     None >>

UnrecognisedReply(message, history, session) ==
  << history \o << Msg("user", message),
                   Msg("assistant", <<"I didn't catch that. Please type **yes** to accept or **no** to retry.">>) >>,
     session, None >>


\* ------------------------------------------------- _submit_wrap and the events
\* one yield of _submit_wrap: outputs [chatbot, session_state, qa_path_state, qa_dl]
\* receive h, s, qa or prev_qa_path (twice)
\* faulty variant of Yield: the location yielded replaces the one carried
Yield_Overwrites(out, prev_qa_path) ==
  /\ chatbot' = out[1]
  /\ session_state' = out[2]
  /\ qa_path_state' = out[3]
  /\ qa_dl' = out[3]

Yield(out, prev_qa_path) ==
  /\ chatbot' = out[1]
  /\ session_state' = out[2]
  /\ qa_path_state' = (IF IsNone(out[3]) THEN prev_qa_path ELSE out[3])
  /\ qa_dl' = (IF IsNone(out[3]) THEN prev_qa_path ELSE out[3])

\* faulty variant of CanSubmit: a submit is taken while a generator is running
CanSubmit_WhileStreaming == Len(chatbot) < MaxHistory

\* a submit (button or Enter) is taken when no generator of the session is
\* running; transcripts of MaxHistory entries or more are not extended
CanSubmit ==
  /\ gen.pc = "ready"
  /\ Len(chatbot) < MaxHistory

SubmitIdle(message) ==
  /\ CanSubmit
  /\ session_state.phase = "idle"
  /\ Yield(IdleReply(message, chatbot, session_state), qa_path_state)
  /\ event' = [op |-> "submit", message |-> message]
  /\ UNCHANGED <<gen, report_writes>>

SubmitDone(message) ==
  /\ CanSubmit
  /\ session_state.phase = "done"
  /\ Yield(DoneReply(message, chatbot, session_state), qa_path_state)
  /\ event' = [op |-> "submit", message |-> message]
  /\ UNCHANGED <<gen, report_writes>>

\* phase "asking": the generator runs up to its first wait on the stream
SubmitAsking(message) ==
  /\ CanSubmit
  /\ session_state.phase = "asking"
  /\ gen' = AskingBegin(message, chatbot, session_state, qa_path_state)
  /\ event' = [op |-> "submit", message |-> message]
  /\ UNCHANGED <<chatbot, session_state, qa_path_state, qa_dl, report_writes>>

\* the stream yields a fragment, relayed at once
StreamChunk(chunk) ==
  /\ gen.pc = "streaming"
  /\ Len(gen.accumulated) < MaxFrags
  /\ chunk = FragPool[Len(gen.accumulated) + 1]
  /\ gen' = AskingChunk(gen, chunk)
  /\ Yield(<<AskingChunk(gen, chunk).history, gen.session, None>>, gen.prev_qa_path)
  /\ event' = [op |-> "chunk", chunk |-> chunk]
  /\ UNCHANGED report_writes

\* the stream (or the call that opens it) raises
StreamFail(exc) ==
  /\ gen.pc = "streaming"
  /\ Yield(AskingError(gen, exc), gen.prev_qa_path)
  /\ gen' = NoGen
  /\ event' = [op |-> "fail", exc |-> exc]
  /\ UNCHANGED report_writes

\* the stream ends
StreamEnd ==
  /\ gen.pc = "streaming"
  /\ Yield(AskingSuccess(gen), gen.prev_qa_path)
  /\ gen' = NoGen
  /\ event' = [op |-> "end"]
  /\ UNCHANGED report_writes

\* the driver drops the generator while it waits: nothing more is emitted
Abandon ==
  /\ gen.pc = "streaming"
  /\ gen' = NoGen
  /\ event' = [op |-> "abandon"]
  /\ UNCHANGED <<chatbot, session_state, qa_path_state, qa_dl, report_writes>>

FeedbackEmpty(message) ==
  /\ CanSubmit
  /\ session_state.phase = "waiting_feedback"
  /\ FeedbackText(message) = EmptyText
  /\ Yield(FeedbackReminder(message, chatbot, session_state), qa_path_state)
  /\ event' = [op |-> "submit", message |-> message]
  /\ UNCHANGED <<gen, report_writes>>

FeedbackAffirmFinal(message, outcome) ==
  /\ CanSubmit
  /\ session_state.phase = "waiting_feedback"
  /\ FeedbackText(message) # EmptyText
  /\ IsPositive(message)
  /\ IsLastQuestion(session_state)
  /\ outcome \in SaveOutcomesFor(NewQa(session_state))
  /\ report_writes' = Append(report_writes,
        save_qa_to_docx(NewQa(session_state), session_state.output_path, outcome))
  /\ Yield(AffirmFinal(message, chatbot, session_state, outcome), qa_path_state)
  /\ event' = [op |-> "submit", message |-> message]
  /\ UNCHANGED gen

\* faulty variant of FeedbackAffirmNext: the report is written after every approval
FeedbackAffirmNext_SavesPartial(message) ==
  /\ CanSubmit
  /\ session_state.phase = "waiting_feedback"
  /\ FeedbackText(message) # EmptyText
  /\ IsPositive(message)
  /\ ~IsLastQuestion(session_state)
  /\ report_writes' = Append(report_writes,
        save_qa_to_docx(NewQa(session_state), session_state.output_path, "ok"))
  /\ Yield(AffirmNext(message, chatbot, session_state), qa_path_state)
  /\ event' = [op |-> "submit", message |-> message]
  /\ UNCHANGED gen

FeedbackAffirmNext(message) ==
  /\ CanSubmit
  /\ session_state.phase = "waiting_feedback"
  /\ FeedbackText(message) # EmptyText
  /\ IsPositive(message)
  /\ ~IsLastQuestion(session_state)
  /\ Yield(AffirmNext(message, chatbot, session_state), qa_path_state)
  /\ event' = [op |-> "submit", message |-> message]
  /\ UNCHANGED <<gen, report_writes>>

FeedbackReject(message) ==
  /\ CanSubmit
  /\ session_state.phase = "waiting_feedback"
  /\ FeedbackText(message) # EmptyText
  /\ ~IsPositive(message)
  /\ IsNegative(message)
  /\ Yield(RejectReply(message, chatbot, session_state), qa_path_state)
  /\ event' = [op |-> "submit", message |-> message]
  /\ UNCHANGED <<gen, report_writes>>

FeedbackUnrecognised(message) ==
  /\ CanSubmit
  /\ session_state.phase = "waiting_feedback"
  /\ FeedbackText(message) # EmptyText
  /\ ~IsPositive(message)
  /\ ~IsNegative(message)
  /\ Yield(UnrecognisedReply(message, chatbot, session_state), qa_path_state)
  /\ event' = [op |-> "submit", message |-> message]
  /\ UNCHANGED <<gen, report_writes>>

Next ==
  \/ StartVerification
  \/ \E message \in Messages : SubmitIdle(message)
  \/ \E message \in Messages : SubmitDone(message)
  \/ \E message \in Contexts : SubmitAsking(message)
  \/ \E chunk \in SeqToSet(FragPool) : StreamChunk(chunk)
  \/ \E exc \in StreamErrors : StreamFail(exc)
  \/ StreamEnd
  \/ Abandon
  \/ \E message \in Messages : FeedbackEmpty(message)
  \/ \E message \in Messages, outcome \in SaveOutcomes : FeedbackAffirmFinal(message, outcome)
  \/ \E message \in Messages : FeedbackAffirmNext(message)
  \/ \E message \in Messages : FeedbackReject(message)
  \/ \E message \in Messages : FeedbackUnrecognised(message)

Spec == Init /\ [][Next]_vars


\* ------------------------------------ the feedback branch over all utterances
\* longest utterance typed as feedback
MaxUtterance == 3

\* characters of the feedback utterances: blank, letters of the shortest
\* approving and rejecting words in both cases
Alphabet == { " ", "Y", "y", "n", "o" }

Utterances == UNION { [1..n -> Alphabet] : n \in 0..MaxUtterance }

\* <<history, session, qa_path>> once the first answer of a session on qs has
\* been streamed: start_verification_full, then handle_chat_stream in "asking"
FirstAnswer(qs) ==
  LET r == start_verification_full(Some(<<"D">>), Some(ExtraFor(qs)), qs,
                                   Some(ValidModel), "20240101_000000")
      g == AskingBegin(EmptyText, r[1], r[2], None)
  IN AskingSuccess(AskingChunk(g, FragPool[1]))

\* the answer is approved and the answer to the next question is streamed
NextAnswer(out) ==
  LET a == AffirmNext(<<"y">>, out[1], out[2])
      g == AskingBegin(EmptyText, a[1], a[2], None)
  IN AskingSuccess(AskingChunk(g, FragPool[1]))

RECURSIVE AnswerK(_, _)
AnswerK(qs, k) == IF k = 0 THEN FirstAnswer(qs) ELSE NextAnswer(AnswerK(qs, k - 1))

\* the sessions that wait for feedback on question k+1 of qs
WaitingStates ==
  { AnswerK(qs, k) : <<qs, k>> \in
      { p \in (QuestionLists \ {<<>>}) \X (0..(MaxQuestions - 1)) : p[2] < Len(p[1]) } }

InitFeedback ==
  \E out \in WaitingStates :
    /\ chatbot = out[1]
    /\ session_state = out[2]
    /\ qa_path_state = None
    /\ qa_dl = None
    /\ gen = NoGen
    /\ report_writes = <<>>
    /\ event = [op |-> "end"]

\* the message is the first reply to the answer just shown
FirstReply == event.op = "end"

NextFeedback ==
  \/ \E message \in Utterances : FirstReply /\ FeedbackEmpty(message)
  \/ \E message \in Utterances, outcome \in SaveOutcomes :
        FirstReply /\ FeedbackAffirmFinal(message, outcome)
  \/ \E message \in Utterances : FirstReply /\ FeedbackAffirmNext(message)
  \/ \E message \in Utterances : FirstReply /\ FeedbackReject(message)
  \/ \E message \in Utterances : FirstReply /\ FeedbackUnrecognised(message)

SpecFeedback == InitFeedback /\ [][NextFeedback]_vars


\* ------------------------------------------- one session driven to its end
\* messages a session still adds to the transcript when every remaining
\* answer is generated once and approved at once
Needed(session, streaming) ==
  IF session.phase = "done" THEN 0
  ELSE IF session.phase = "asking" /\ ~streaming
       THEN 4 * (Len(session.questions) - session.current_index)
       ELSE 4 * (Len(session.questions) - session.current_index) - 2

\* the transcript bound leaves room to finish the session
Completable ==
  IF gen.pc = "streaming"
  THEN Len(gen.history) + Needed(gen.session, TRUE) <= MaxHistory + 1
  ELSE Len(chatbot) + Needed(session_state, FALSE) <= MaxHistory + 1

\* a session right after a Start that passed its guards
InitLive ==
  /\ \E in \in StartInputs, ts \in Timestamps :
       LET r == start_verification_full(in.id_text, in.extra_text,
                                        in.questions, in.model, ts) IN
         /\ r[2].phase = "asking"
         /\ chatbot = r[1]
         /\ session_state = r[2]
         /\ qa_dl = r[3]
         /\ event = [op |-> "start", input |-> in, replaced |-> "idle"]
  /\ qa_path_state = None
  /\ gen = NoGen
  /\ report_writes = <<>>
  /\ Completable

\* the reviewer answers the question asked
LiveAsk == (\E message \in Contexts : SubmitAsking(message)) /\ Completable'

LiveChunk == (\E chunk \in SeqToSet(FragPool) : StreamChunk(chunk)) /\ Completable'

LiveFail == (\E exc \in StreamErrors : StreamFail(exc)) /\ Completable'

LiveEnd == StreamEnd /\ Completable'

LiveAbandon == Abandon /\ Completable'

\* the reviewer approves the answer shown
LiveAffirm ==
  /\ \/ \E message \in Messages, outcome \in SaveOutcomes :
          FeedbackAffirmFinal(message, outcome)
     \/ \E message \in Messages : FeedbackAffirmNext(message)
  /\ Completable'

\* the reviewer rejects the answer, or types nothing or something unclear
LiveDetour ==
  /\ \/ \E message \in Messages : FeedbackEmpty(message)
     \/ \E message \in Messages : FeedbackReject(message)
     \/ \E message \in Messages : FeedbackUnrecognised(message)
  /\ Completable'

NextLive ==
  \/ LiveAsk
  \/ LiveChunk
  \/ LiveFail
  \/ LiveEnd
  \/ LiveAbandon
  \/ LiveAffirm
  \/ LiveDetour

\* the reviewer keeps answering, every stream ends or fails, a retried stream
\* ends well again and again, and a pending answer is approved in the end
FairLive ==
  /\ WF_vars(LiveAsk)
  /\ WF_vars(LiveEnd \/ LiveFail)
  /\ SF_vars(LiveEnd)
  /\ SF_vars(LiveAffirm)

SpecLive == InitLive /\ [][NextLive]_vars /\ FairLive


\* ------------------------------------------------------------------ properties
Started == session_state.phase # "idle"

\* the event being handled in a step is a reviewer message delivered to a
\* session that waits for feedback
FeedbackStep == event'.op = "submit" /\ session_state.phase = "waiting_feedback"

AffirmStep == FeedbackStep /\ IsPositive(event'.message)

RejectStep == FeedbackStep /\ ~IsPositive(event'.message) /\ IsNegative(event'.message)

IsQuestionParagraph(p) == p[1] = "Q: "

\* the questions a written document lists, in the order of its paragraphs
DocumentQuestions(document) ==
  LET qs == SelectSeq(document, IsQuestionParagraph) IN
    [i \in 1..Len(qs) |-> qs[i][2]]

\* C2: an Affirm handled in waiting_feedback on the last question moves the
\* session to done and calls save_qa_to_docx exactly once in that step, with
\* len(questions) pairs whose i-th question is questions[i]; a document that
\* is written lists exactly these questions in this order
C2_FinalAffirmWritesAll ==
  [][ (AffirmStep /\ session_state.current_index + 1 = Len(session_state.questions)) =>
        /\ session_state'.phase = "done"
        /\ Len(report_writes') = Len(report_writes) + 1
        /\ LET w == report_writes'[Len(report_writes')] IN
             /\ Len(w.qa_pairs) = Len(session_state.questions)
             /\ \A i \in 1..Len(w.qa_pairs) : w.qa_pairs[i][1] = session_state.questions[i]
             /\ w.qa_pairs = session_state'.approved_qa
             /\ w.outcome = "ok" =>
                  DocumentQuestions(Val(w.document)) = session_state.questions ]_vars

C2_Witness ==
  /\ session_state.phase = "done"
  /\ event.op = "submit"
  /\ session_state.questions = <<"Q1", "Q2">>
  /\ Len(report_writes) = 1
  /\ report_writes[1].outcome = "ok"
  /\ DocumentQuestions(Val(report_writes[1].document)) = <<"Q1", "Q2">>

\* C3: for the stored session save_qa_to_docx is called at most once, only in
\* the step that handles the Affirm of the last question, and never with fewer
\* than len(questions) pairs
C3_WriteOnlyAtFinalAffirm ==
  [][ /\ Len(report_writes') <= 1
      /\ (report_writes' # report_writes /\ report_writes' # <<>>) =>
           /\ AffirmStep
           /\ IsLastQuestion(session_state)
           /\ report_writes = <<>>
           /\ Len(report_writes'[1].qa_pairs) = Len(session_state.questions) ]_vars

C3_Witness ==
  /\ session_state.phase = "done"
  /\ Len(report_writes) = 1
  /\ Len(chatbot) >= 7
  /\ chatbot[Len(chatbot)].content[1] = "Verification is complete! Download the Q&A report using the button below."
  /\ Len(session_state.questions) = 1

C5_DoneIsComplete ==
  session_state.phase = "done" =>
    Len(session_state.approved_qa) = Len(session_state.questions)

C5_Witness ==
  /\ session_state.phase = "done"
  /\ Len(session_state.questions) = 1
  /\ Len(session_state.approved_qa) = 1

\* C6: in phase asking with no pending answer, len(approved_qa) = current_index
C6_AskingCountsApproved ==
  (session_state.phase = "asking" /\ IsNone(session_state.current_answer)) =>
    Len(session_state.approved_qa) = session_state.current_index

C6_Witness ==
  /\ session_state.phase = "asking"
  /\ IsNone(session_state.current_answer)
  /\ session_state.current_index = 1
  /\ Len(session_state.approved_qa) = 1


\* C7: an Affirm handled in waiting_feedback before the last question appends
\* exactly the pair (questions[current_index], current_answer), advances the
\* index by one, clears the answer, moves to asking and writes no report
C7_AffirmAdvances ==
  [][ (AffirmStep /\ session_state.current_index + 1 < Len(session_state.questions)) =>
        /\ ~IsNone(session_state.current_answer)
        /\ session_state'.approved_qa =
             Append(session_state.approved_qa,
                    << session_state.questions[session_state.current_index + 1],
                       session_state.current_answer >>)
        /\ session_state'.current_index = session_state.current_index + 1
        /\ IsNone(session_state'.current_answer)
        /\ session_state'.phase = "asking"
        /\ report_writes' = report_writes ]_vars

C7_Witness ==
  /\ event.op = "submit"
  /\ IsPositive(event.message)
  /\ session_state.phase = "asking"
  /\ session_state.current_index = 1
  /\ session_state.approved_qa = << <<"Q1", Some(<<"a", "b">>)>> >>

\* C8: a Reject handled in waiting_feedback moves to asking on the same index,
\* clears the answer and leaves approved_qa, questions, model, the context
\* texts and the output path as they were
C8_RejectKeepsSession ==
  [][ RejectStep =>
        /\ session_state'.phase = "asking"
        /\ session_state'.current_index = session_state.current_index
        /\ IsNone(session_state'.current_answer)
        /\ session_state'.approved_qa = session_state.approved_qa
        /\ session_state'.questions = session_state.questions
        /\ session_state'.model = session_state.model
        /\ session_state'.id_text = session_state.id_text
        /\ session_state'.extra_text = session_state.extra_text
        /\ session_state'.output_path = session_state.output_path ]_vars

C8_Witness ==
  /\ event.op = "submit"
  /\ event.message = <<"n", "o">>
  /\ session_state.phase = "asking"
  /\ session_state.current_index = 1
  /\ Len(session_state.approved_qa) = 1
  /\ chatbot[Len(chatbot)].content[1] = "No problem - let's try again. **Question "

\* C9: when the answer stream raises, after any number of fragments, the
\* emitted session is in asking with no answer, approved_qa and current_index
\* are those the message was handled with, and the generator is over, so the
\* same question is asked again by the next message
C9_StreamFailureKeepsSession ==
  [][ event'.op = "fail" =>
        /\ session_state'.phase = "asking"
        /\ IsNone(session_state'.current_answer)
        /\ session_state'.approved_qa = gen.session.approved_qa
        /\ session_state'.current_index = gen.session.current_index
        /\ session_state'.approved_qa = session_state.approved_qa
        /\ session_state'.current_index = session_state.current_index
        /\ session_state'.current_question = gen.request.question
        /\ gen'.pc = "ready" ]_vars

C9_Witness ==
  /\ event.op = "fail"
  /\ session_state.phase = "asking"
  /\ session_state.current_index = 1
  /\ chatbot[Len(chatbot)].content[1] = "Error generating answer: "

\* C10: when the stream raises after at least one fragment was relayed, the
\* transcript emitted with the error still holds the text relayed so far
C10_PartialTextKept ==
  [][ (event'.op = "fail" /\ gen.accumulated # EmptyText) =>
        /\ Contains(chatbot'[Len(chatbot')].content, gen.accumulated)
        /\ Contains(chatbot'[Len(chatbot')].content, <<"Error generating answer: ">>) ]_vars


StartStep == event'.op = "start"

\* the model given to Start is missing, empty or names no model
InvalidModelInput(model) ==
  \/ model = None
  \/ model = Some(EmptyText)
  \/ \E i \in 1..(Len(Val(model)) - 2) :
        /\ Lower(<<Val(model)[i]>>) = <<"no">>
        /\ Val(model)[i + 1] = " "
        /\ Lower(<<Val(model)[i + 2]>>) = <<"models">>

FreshSession(session, questions) ==
  /\ session.phase = "asking"
  /\ session.current_index = 0
  /\ IsNone(session.current_answer)
  /\ session.approved_qa = <<>>
  /\ session.questions = questions

\* C12 as stated: from idle, a Start with a non-empty question list and a
\* valid model gives a fresh asking session whatever the context texts are
C12_StartIgnoresContext ==
  [][ (StartStep /\ session_state.phase = "idle"
         /\ event'.input.questions # <<>>
         /\ ~InvalidModelInput(event'.input.model)) =>
        FreshSession(session_state', event'.input.questions) ]_vars

\* C12 amended: from idle, a Start with a non-empty disclosure text, a
\* non-empty question list and a valid model gives a fresh asking session
\* whatever the additional text is; with the disclosure text missing or empty
\* the session stays idle
C12_StartNeedsDisclosure ==
  [][ (StartStep /\ session_state.phase = "idle"
         /\ event'.input.questions # <<>>
         /\ ~InvalidModelInput(event'.input.model)) =>
        IF event'.input.id_text = None \/ event'.input.id_text = Some(EmptyText)
        THEN session_state'.phase = "idle"
        ELSE FreshSession(session_state', event'.input.questions) ]_vars

C12_Witness ==
  /\ event.op = "start"
  /\ event.input.extra_text = Some(EmptyText)
  /\ event.input.id_text = Some(<<"D">>)
  /\ session_state.phase = "asking"
  /\ session_state.extra_text = EmptyText
  /\ session_state.current_index = 0

\* C13: a Start with an empty question list or an invalid model ends in the
\* bare idle session, shows one assistant diagnostic, starts no generation
\* and writes no report
C13_BadStartStaysIdle ==
  [][ (StartStep /\ (event'.input.questions = <<>>
                       \/ InvalidModelInput(event'.input.model))) =>
        /\ session_state' = IdleSession
        /\ Len(chatbot') = 1
        /\ chatbot'[1].role = "assistant"
        /\ chatbot'[1].content # EmptyText
        /\ gen'.pc = "ready"
        /\ report_writes' = <<>>
        /\ qa_dl' = None
        /\ event'.input.model = Some(NoModelsChoice) =>
              \A ts \in Timestamps :
                start_verification_full(event'.input.id_text, event'.input.extra_text,
                                        event'.input.questions, Some(EmptyText), ts)[2]
                  = IdleSession ]_vars

C13_Witness ==
  /\ event.op = "start"
  /\ event.input.model = Some(NoModelsChoice)
  /\ event.input.questions # <<>>
  /\ session_state.phase = "idle"
  /\ chatbot[1].content = <<"(!) Please select a valid ollama model.">>


\* the set of trimmed, lowercased, whitespace-separated tokens of an utterance:
\* the maximal runs of non-blank characters
TokenSet(u) ==
  LET l == Lower(u) IN
  { SubSeq(l, q[1], q[2]) : q \in
      { p \in (1..Len(l)) \X (1..Len(l)) :
          /\ p[1] <= p[2]
          /\ \A k \in p[1]..p[2] : ~IsSpace(l[k])
          /\ (p[1] = 1 \/ IsSpace(l[p[1] - 1]))
          /\ (p[2] = Len(l) \/ IsSpace(l[p[2] + 1])) } }

\* the classification the specification gives an utterance
Classify(u) ==
  IF TokenSet(u) = {} THEN "Unrecognized"
  ELSE IF TokenSet(u) \cap _POSITIVE_WORDS # {} THEN "Affirm"
  ELSE IF TokenSet(u) \cap _NEGATIVE_WORDS # {} THEN "Reject"
  ELSE "Unrecognized"

\* the branch a step of the handler took, read from its effect on the session
BranchTaken ==
  IF Len(session_state'.approved_qa) = Len(session_state.approved_qa) + 1 THEN "Affirm"
  ELSE IF session_state' = session_state THEN "Unrecognized"
  ELSE IF /\ session_state'.phase = "asking"
          /\ IsNone(session_state'.current_answer)
          /\ session_state'.approved_qa = session_state.approved_qa THEN "Reject"
  ELSE "other"

\* the classification the handler's own computation gives an utterance
HandlerClass(u) ==
  IF FeedbackText(u) = EmptyText THEN "Unrecognized"
  ELSE IF IsPositive(u) THEN "Affirm"
  ELSE IF IsNegative(u) THEN "Reject"
  ELSE "Unrecognized"

LastMessage(history) == history[Len(history)]

\* C14: feedback that is empty, blank or unrecognized leaves the whole session
\* as it was, starts no generation, writes no report and ends with a reminder
\* from the assistant
C14_UnclearFeedbackKeepsSession ==
  [][ (FeedbackStep /\ Classify(event'.message) = "Unrecognized") =>
        /\ session_state' = session_state
        /\ gen'.pc = "ready"
        /\ report_writes' = report_writes
        /\ Len(chatbot') > Len(chatbot)
        /\ SubSeq(chatbot', 1, Len(chatbot)) = chatbot
        /\ LastMessage(chatbot').role = "assistant"
        /\ LastMessage(chatbot').content \in
             { <<"Please type **yes** to accept the answer or **no** to retry.">>,
               <<"I didn't catch that. Please type **yes** to accept or **no** to retry.">> }
    ]_vars

C14_Witness ==
  /\ event.op = "submit"
  /\ event.message = <<" ", " ">>
  /\ session_state.phase = "waiting_feedback"
  /\ session_state.current_index = 1
  /\ session_state.current_answer = Some(<<"a">>)
  /\ LastMessage(chatbot).content =
       <<"Please type **yes** to accept the answer or **no** to retry.">>

\* C17: the branch the handler takes on feedback is the class of the
\* utterance's token set: Affirm when it holds an approving word, even next to
\* a rejecting one; Reject when it holds a rejecting and no approving word;
\* Unrecognized otherwise, the empty set included
C17_BranchFollowsClassification ==
  [][ FeedbackStep => BranchTaken = Classify(event'.message) ]_vars

C17_Witness ==
  /\ event.op = "submit"
  /\ event.message = <<"n", " ", "y">>
  /\ session_state.phase = "asking"
  /\ Len(session_state.approved_qa) = 1

\* C18: utterances with the same token set are classified alike, whatever the
\* order or repetition of the tokens, the case of the letters and the blanks
\* around them; the same utterance is classified the same way again
C18_ClassDependsOnTokenSetOnly ==
  [][ FeedbackStep =>
        /\ HandlerClass(event'.message) = BranchTaken
        /\ \A v \in Utterances :
             TokenSet(v) = TokenSet(event'.message) => HandlerClass(v) = BranchTaken
    ]_vars

C18_Witness ==
  /\ event.op = "submit"
  /\ event.message = <<"Y", " ", "Y">>
  /\ TokenSet(<<"y">>) = TokenSet(event.message)
  /\ session_state.phase = "done"
  /\ Len(session_state.approved_qa) = 2


\* C15: a reviewer message handled in idle or in done returns the session
\* unchanged, shows an assistant message, and runs neither a generation nor a
\* report write; once done, no reviewer message changes phase, approved_qa
\* or current_index
C15_IdleAndDoneIgnoreMessages ==
  [][ /\ (event'.op = "submit" /\ session_state.phase \in {"idle", "done"}) =>
           /\ session_state' = session_state
           /\ Len(chatbot') = Len(chatbot) + 2
           /\ SubSeq(chatbot', 1, Len(chatbot)) = chatbot
           /\ LastMessage(chatbot').role = "assistant"
           /\ LastMessage(chatbot').content # EmptyText
           /\ gen'.pc = "ready"
           /\ report_writes' = report_writes
      /\ (session_state.phase = "done" /\ event'.op # "start") =>
           /\ session_state'.phase = "done"
           /\ session_state'.approved_qa = session_state.approved_qa
           /\ session_state'.current_index = session_state.current_index
    ]_vars

C15_Witness ==
  /\ event.op = "submit"
  /\ event.message = <<"n", "o">>
  /\ session_state.phase = "done"
  /\ Len(session_state.approved_qa) = 1
  /\ Len(chatbot) = 7
  /\ LastMessage(chatbot).content =
       <<"Verification is complete! Download the Q&A report using the button below.">>


\* the step is a final approval whose report write raises
FailedWriteStep ==
  /\ AffirmStep
  /\ session_state.current_index + 1 >= Len(session_state.questions)
  /\ Len(report_writes') = Len(report_writes) + 1
  /\ report_writes'[Len(report_writes')].outcome = "raise"

\* C16: when the report write fails at the final approval, the reviewer is
\* shown the error, the session is done with one approved pair per question,
\* and no report location is emitted
C16_FailedWriteStillDone ==
  [][ FailedWriteStep =>
        /\ session_state'.phase = "done"
        /\ Len(session_state'.approved_qa) = Len(session_state.questions)
        /\ session_state'.approved_qa =
             Append(session_state.approved_qa,
                    <<session_state.current_question, session_state.current_answer>>)
        /\ LastMessage(chatbot').role = "assistant"
        /\ LastMessage(chatbot').content[1] = "Error saving Q&A report: "
        /\ qa_dl' = None
        /\ qa_path_state' = None
    ]_vars

C16_Witness ==
  /\ event.op = "submit"
  /\ session_state.phase = "done"
  /\ Len(session_state.approved_qa) = 2
  /\ Len(report_writes) = 1
  /\ report_writes[1].outcome = "raise"
  /\ report_writes[1].document = None
  /\ qa_dl = None
  /\ LastMessage(chatbot).content[1] = "Error saving Q&A report: "


ApprovedUnchanged == session_state'.approved_qa = session_state.approved_qa

\* C19: a generation starts from the empty text and accumulates its fragments
\* in order; only a completed generation sets the pending answer, to exactly
\* that accumulated text (the prompt goes to the transcript only); a fragment,
\* a failure, an abandonment or a rejection stores nothing and leaves no
\* pending answer; an approval stores the pending answer, unaltered
C19_ApprovedAnswerIsCompletedGeneration ==
  [][ /\ (event'.op = "submit" /\ session_state.phase = "asking") =>
           /\ gen'.accumulated = EmptyText
           /\ session_state' = session_state
      /\ event'.op = "chunk" =>
           /\ gen'.accumulated = gen.accumulated \o <<event'.chunk>>
           /\ ApprovedUnchanged
           /\ IsNone(session_state'.current_answer)
      /\ event'.op = "end" =>
           /\ session_state'.current_answer = Some(gen.accumulated)
           /\ LastMessage(chatbot').content =
                gen.accumulated \o FeedbackPrompt(session_state)
           /\ ApprovedUnchanged
      /\ event'.op \in {"fail", "abandon"} =>
           /\ ApprovedUnchanged
           /\ IsNone(session_state'.current_answer)
           /\ session_state'.phase = "asking"
      /\ RejectStep =>
           /\ ApprovedUnchanged
           /\ IsNone(session_state'.current_answer)
      /\ AffirmStep =>
           session_state'.approved_qa =
             Append(session_state.approved_qa,
                    <<session_state.current_question, session_state.current_answer>>)
      /\ (event'.op \notin {"end", "start"} /\ session_state'.phase # "idle"
            /\ ~IsNone(session_state'.current_answer)) =>
           session_state'.current_answer = session_state.current_answer
    ]_vars

C19_Witness ==
  /\ session_state.phase = "done"
  /\ session_state.approved_qa = << <<"Q1", Some(<<"a">>)>> >>
  /\ \E i \in 1..Len(chatbot) :
        chatbot[i].content = <<"a", "b">> \o FeedbackPrompt(session_state)
  /\ \E i \in 1..Len(chatbot) :
        chatbot[i] = Msg("user", <<"n", "o">>)


\* C20: within a session every reviewer message and every stream outcome keeps
\* approved_qa as a prefix of its new value, which is at most one pair longer,
\* and the question of the i-th approved pair is the i-th question
C20_ApprovedAppendOnly ==
  [][ /\ (event'.op # "start" /\ session_state.phase # "idle") =>
           /\ Len(session_state'.approved_qa) >= Len(session_state.approved_qa)
           /\ Len(session_state'.approved_qa) <= Len(session_state.approved_qa) + 1
           /\ SubSeq(session_state'.approved_qa, 1, Len(session_state.approved_qa))
                = session_state.approved_qa
           /\ session_state'.questions = session_state.questions
      /\ session_state'.phase # "idle" =>
           /\ Len(session_state'.approved_qa) <= Len(session_state'.questions)
           /\ \A i \in 1..Len(session_state'.approved_qa) :
                session_state'.approved_qa[i][1] = session_state'.questions[i]
    ]_vars

C20_Witness ==
  /\ event.op = "submit"
  /\ event.message = <<"n", "o">>
  /\ session_state.phase = "asking"
  /\ session_state.current_index = 1
  /\ session_state.approved_qa = << <<"Q1", Some(<<"a", "b">>)>> >>


\* C21: within a session current_index never decreases under a reviewer
\* message or a stream outcome; it changes only when an approval is handled
\* in waiting_feedback, and then by exactly one, to the next question
C21_IndexAdvancesOnlyOnAffirm ==
  [][ (event'.op # "start" /\ session_state.phase # "idle") =>
        /\ session_state'.current_index >= session_state.current_index
        /\ session_state'.current_index # session_state.current_index =>
             /\ AffirmStep
             /\ session_state'.current_index = session_state.current_index + 1
             /\ session_state'.current_question =
                  session_state.questions[session_state.current_index + 2]
    ]_vars

C21_Witness ==
  /\ event.op = "end"
  /\ session_state.phase = "waiting_feedback"
  /\ session_state.current_index = 1
  /\ session_state.current_question = "Q2"
  /\ Len(session_state.approved_qa) = 1


\* the text shown in the last transcript entry while a generation runs; the
\* placeholder of a generation without fragments so far is the empty text
RelayedText == IF gen.accumulated = EmptyText THEN EmptyText
               ELSE LastMessage(chatbot).content

\* C22: each fragment of a generation is followed by a relay of the running
\* concatenation of all fragments so far, which extends the text relayed
\* before; when the stream ends the session waits for feedback with the whole
\* concatenation as its answer, on the same index and the same approved pairs
C22_RelayRunningConcatenation ==
  [][ /\ event'.op = "chunk" =>
           /\ RelayedText = gen.accumulated
           /\ LastMessage(chatbot').role = "assistant"
           /\ LastMessage(chatbot').content = RelayedText \o <<event'.chunk>>
           /\ LastMessage(chatbot').content = SubSeq(FragPool, 1, Len(gen.accumulated) + 1)
           /\ Len(chatbot') = Len(gen.history)
      /\ event'.op = "end" =>
           /\ RelayedText = gen.accumulated
           /\ session_state'.phase = "waiting_feedback"
           /\ session_state'.current_answer = Some(SubSeq(FragPool, 1, Len(gen.accumulated)))
           /\ session_state'.current_index = session_state.current_index
           /\ session_state'.approved_qa = session_state.approved_qa
           /\ session_state' = [ session_state EXCEPT
                                   !.phase = "waiting_feedback",
                                   !.current_answer = Some(gen.accumulated) ]
    ]_vars

C22_Witness ==
  /\ event.op = "end"
  /\ session_state.phase = "waiting_feedback"
  /\ session_state.current_answer = Some(<<"a", "b">>)
  /\ session_state.current_index = 0
  /\ LastMessage(chatbot).content = <<"a", "b">> \o FeedbackPrompt(session_state)


\* C23: while a generation runs, every session emitted with a fragment is the
\* session as it was when the message arrived (asking, no answer); dropping
\* the generator changes nothing that is stored; only the emission after the
\* end of the stream changes the session
C23_AbandonLeavesSession ==
  [][ /\ (event'.op = "submit" /\ session_state.phase = "asking") =>
           /\ session_state' = session_state
           /\ gen'.session = session_state
      /\ event'.op = "chunk" =>
           /\ session_state' = gen.session
           /\ session_state' = session_state
           /\ session_state'.phase = "asking"
           /\ IsNone(session_state'.current_answer)
           /\ gen'.session = gen.session
      /\ event'.op = "abandon" =>
           /\ session_state' = gen.session
           /\ session_state' = session_state
           /\ chatbot' = chatbot
           /\ qa_path_state' = qa_path_state
           /\ report_writes' = report_writes
      /\ (gen.pc = "streaming" /\ session_state' # session_state) =>
           event'.op = "end"
    ]_vars

C23_Witness ==
  /\ event.op = "abandon"
  /\ session_state.phase = "asking"
  /\ IsNone(session_state.current_answer)
  /\ session_state.current_index = 1
  /\ Len(session_state.approved_qa) = 1
  /\ LastMessage(chatbot).content = <<"a", "b">>


\* the step is an emission of handle_chat_stream
EmissionStep == event'.op \in {"submit", "chunk", "fail", "end"} /\ chatbot' # chatbot

\* the report location handle_chat_stream yields in the emission of a step
EmittedLocation ==
  CASE event'.op = "chunk" -> None
    [] event'.op = "fail" -> AskingError(gen, event'.exc)[3]
    [] event'.op = "end" -> AskingSuccess(gen)[3]
    [] event'.op = "submit" /\ session_state.phase = "idle" ->
         IdleReply(event'.message, chatbot, session_state)[3]
    [] event'.op = "submit" /\ session_state.phase = "done" ->
         DoneReply(event'.message, chatbot, session_state)[3]
    [] event'.op = "submit" /\ session_state.phase = "waiting_feedback" ->
         IF FeedbackText(event'.message) = EmptyText
           THEN FeedbackReminder(event'.message, chatbot, session_state)[3]
         ELSE IF IsPositive(event'.message) /\ IsLastQuestion(session_state)
           THEN AffirmFinal(event'.message, chatbot, session_state,
                            report_writes'[Len(report_writes')].outcome)[3]
         ELSE IF IsPositive(event'.message)
           THEN AffirmNext(event'.message, chatbot, session_state)[3]
         ELSE IF IsNegative(event'.message)
           THEN RejectReply(event'.message, chatbot, session_state)[3]
         ELSE UnrecognisedReply(event'.message, chatbot, session_state)[3]

\* C25: an emission of handle_chat_stream carries a report location only when
\* it moves the session from waiting_feedback to done after a write that
\* succeeded; the location is then the session's output path; emissions in
\* idle, asking, waiting_feedback short of the end, and done carry none
C25_LocationOnlyAtCompletion ==
  [][ EmissionStep =>
        /\ qa_dl' = (IF IsNone(EmittedLocation) THEN qa_path_state ELSE EmittedLocation)
        /\ ~IsNone(EmittedLocation) =>
             /\ session_state.phase = "waiting_feedback"
             /\ session_state'.phase = "done"
             /\ Len(report_writes') = Len(report_writes) + 1
             /\ report_writes'[Len(report_writes')].outcome = "ok"
             /\ EmittedLocation = Some(session_state.output_path)
        /\ (session_state.phase = "waiting_feedback" /\ session_state'.phase = "done"
              /\ report_writes'[Len(report_writes')].outcome = "ok") =>
             ~IsNone(EmittedLocation)
    ]_vars

C25_Witness ==
  /\ event.op = "submit"
  /\ session_state.phase = "done"
  /\ Len(chatbot) = 7
  /\ chatbot[6] = Msg("user", <<"(empty)">>)
  /\ Len(report_writes) = 1
  /\ report_writes[1].outcome = "ok"
  /\ qa_dl = Some(session_state.output_path)


\* the input of a Start passes every guard
StartInputValid(in) ==
  /\ in.id_text # None /\ in.id_text # Some(EmptyText)
  /\ in.questions # <<>>
  /\ ~InvalidModelInput(in.model)

\* C26: a Start that passes its guards while a session is stored in asking,
\* waiting_feedback or done replaces it by a session made of the Start's
\* inputs alone: first question, no answer, no approved pair, no report
\* location and no write carried over
C26_StartReplacesSession ==
  [][ (StartStep /\ session_state.phase # "idle" /\ StartInputValid(event'.input)) =>
        /\ FreshSession(session_state', event'.input.questions)
        /\ session_state'.current_question = event'.input.questions[1]
        /\ session_state'.id_text = event'.input.id_text[1]
        /\ session_state'.extra_text = event'.input.extra_text[1]
        /\ session_state'.model = event'.input.model[1]
        /\ DOMAIN session_state' = DOMAIN session_state
        /\ Len(chatbot') = 1
        /\ qa_dl' = None
        /\ qa_path_state' = None
        /\ report_writes' = <<>>
    ]_vars

C26_Witness ==
  /\ event.op = "start"
  /\ event.replaced = "done"
  /\ session_state.phase = "asking"
  /\ session_state.questions = <<"Q1", "Q2">>
  /\ session_state.approved_qa = <<>>
  /\ session_state.current_index = 0


\* the step ends a call of handle_chat_stream: a one-step branch, or the end
\* or failure of the answer stream
HandlerDone ==
  /\ event'.op \in {"submit", "end", "fail"}
  /\ gen'.pc = "ready"

Phases == {"idle", "asking", "waiting_feedback", "done"}

\* C27: whatever the phase and the text of the message, a call of
\* handle_chat_stream whose stream ends or fails has emitted a transcript
\* that ends with an assistant message, longer than the one it was given,
\* and a session whose phase is one of the four phases
C27_EveryEventAnswered ==
  [][ HandlerDone =>
        /\ chatbot' # chatbot
        /\ Len(chatbot') > (IF event'.op = "submit" THEN Len(chatbot)
                            ELSE Len(gen.history) - 2)
        /\ LastMessage(chatbot').role = "assistant"
        /\ LastMessage(chatbot').content # EmptyText
        /\ session_state'.phase \in Phases
        /\ session_state'.phase # "idle" =>
             DOMAIN session_state' =
               { "phase", "questions", "current_index", "current_question",
                 "current_answer", "approved_qa", "output_path", "model",
                 "id_text", "extra_text" }
    ]_vars

C27_Witness ==
  /\ event.op = "submit"
  /\ event.message = <<"x">>
  /\ session_state = IdleSession
  /\ Len(chatbot) = 3
  /\ LastMessage(chatbot) = Msg("assistant", <<"Please click **Start Verification** to begin.">>)


Active == session_state.phase \in {"asking", "waiting_feedback"}

\* C28: a session in asking or waiting_feedback whose streams all end or fail,
\* end well again and again when retried, and whose pending answers are
\* approved in the end, reaches done; every approval adds one pair and nothing
\* else does, so done is reached with exactly len(questions) approvals,
\* whatever rejections, unclear replies and failed streams come in between
C28_EventuallyDone ==
  /\ Active ~> (session_state.phase = "done"
                  /\ Len(session_state.approved_qa) = Len(session_state.questions))
  /\ [][ Len(session_state'.approved_qa) =
           Len(session_state.approved_qa) + (IF AffirmStep THEN 1 ELSE 0) ]_vars

C28_Witness ==
  /\ session_state.phase = "done"
  /\ Len(session_state.approved_qa) = 1
  /\ \E i \in 1..Len(chatbot) : chatbot[i] = Msg("user", <<"x">>)
  /\ \E i \in 1..Len(chatbot) :
        chatbot[i].content # EmptyText /\ chatbot[i].content[1] = "Error generating answer: "


\* C29: in asking, waiting_feedback and done the cached current_question is
\* questions[current_index]; it is the question a running generation was
\* asked, and the question of the pair an approval stores
C29_CachedQuestionIsCurrent ==
  [][ /\ session_state'.phase # "idle" =>
           /\ session_state'.current_index < Len(session_state'.questions)
           /\ session_state'.current_question =
                session_state'.questions[session_state'.current_index + 1]
      /\ gen'.pc = "streaming" =>
           gen'.request.question =
             session_state'.questions[session_state'.current_index + 1]
      /\ AffirmStep =>
           LastMessage(session_state'.approved_qa)[1] =
             session_state.questions[session_state.current_index + 1]
    ]_vars

C29_Witness ==
  /\ gen.pc = "streaming"
  /\ gen.request.question = "Q2"
  /\ session_state.current_index = 1
  /\ session_state.current_question = "Q2"
  /\ session_state.approved_qa[1][1] = "Q1"

\* C30: a stream that ends without a fragment leaves the session waiting for
\* feedback on the empty text as answer, which is not the absent answer; its
\* approval stores the pair (question, "") and moves on as any approval
\* does: to the next question, or to done with the report written
C30_EmptyAnswerIsAnAnswer ==
  [][ /\ (event'.op = "end" /\ gen.accumulated = EmptyText) =>
           /\ session_state'.phase = "waiting_feedback"
           /\ session_state'.current_answer = Some(EmptyText)
           /\ ~IsNone(session_state'.current_answer)
      /\ (AffirmStep /\ session_state.current_answer = Some(EmptyText)) =>
           /\ session_state'.approved_qa =
                Append(session_state.approved_qa,
                       <<session_state.questions[session_state.current_index + 1],
                         Some(EmptyText)>>)
           /\ IF session_state.current_index + 1 < Len(session_state.questions)
              THEN /\ session_state'.phase = "asking"
                   /\ session_state'.current_index = session_state.current_index + 1
                   /\ IsNone(session_state'.current_answer)
                   /\ report_writes' = report_writes
              ELSE /\ session_state'.phase = "done"
                   /\ Len(report_writes') = Len(report_writes) + 1
                   /\ LastMessage(report_writes').qa_pairs = session_state'.approved_qa
           /\ "ok" \in SaveOutcomesFor(session_state'.approved_qa)
    ]_vars

C30_Witness ==
  /\ event.op = "submit"
  /\ session_state.phase = "done"
  /\ session_state.approved_qa = << <<"Q1", Some(EmptyText)>> >>
  /\ Len(report_writes) = 1
  /\ report_writes[1].outcome = "ok"
  /\ qa_dl = Some(session_state.output_path)


C31_FailedStartDiscardsSession ==
  [][ (StartStep /\ session_state.phase # "idle" /\ ~StartInputValid(event'.input)) =>
        /\ session_state' = [phase |-> "idle"]
        /\ DOMAIN session_state' = {"phase"}
        /\ Len(chatbot') = 1
        /\ LastMessage(chatbot').role = "assistant"
        /\ qa_dl' = None
        /\ qa_path_state' = None
    ]_vars

C31_Witness ==
  /\ event.op = "start"
  /\ event.replaced = "waiting_feedback"
  /\ event.input.model = None
  /\ session_state = [phase |-> "idle"]
  /\ Len(chatbot) = 1

\* C32: once a report location has been emitted, every later turn carries it
\* in both outputs until a Start resets it; a turn that yields no location
\* carries the one stored when the turn began; a Start stores none
C32_LocationCarriedAcrossTurns ==
  [][ /\ EmissionStep =>
           /\ qa_dl' = qa_path_state'
           /\ ~IsNone(qa_path_state) => qa_path_state' = qa_path_state
           /\ IsNone(EmittedLocation) => qa_path_state' = qa_path_state
           /\ ~IsNone(EmittedLocation) => qa_path_state' = EmittedLocation
      /\ event'.op = "abandon" =>
           qa_path_state' = qa_path_state /\ qa_dl' = qa_dl
      /\ StartStep => qa_path_state' = None /\ qa_dl' = None
      /\ (~IsNone(qa_path_state) /\ IsNone(qa_path_state')) => StartStep
    ]_vars

C32_Witness ==
  /\ event.op = "submit"
  /\ event.message = <<"x">>
  /\ session_state.phase = "done"
  /\ chatbot[Len(chatbot) - 1] = Msg("user", <<"x">>)
  /\ Len(chatbot) = 7
  /\ qa_path_state = Some(session_state.output_path)
  /\ qa_dl = qa_path_state

====
